---- MODULE Spec2Model ----
(***************************************************************************)
(* Model of auto_subtitle/cli.py: the subtitle-generation and composition  *)
(* pipeline (main, get_audio, get_subtitles).                              *)
(*                                                                         *)
(* Strings the program inspects (paths, the model name, the colour name)   *)
(* are sequences of one-character strings, so that basename, splitext,     *)
(* join, endswith and lower are computed as the code computes them.        *)
(* Strings the program only compares or passes on (language codes) are     *)
(* plain strings.                                                          *)
(***************************************************************************)
EXTENDS Integers, Sequences, FiniteSets, TLC

---------------------------------------------------------------------------
(* Bounds of the model *)

\* Largest number of positional video arguments explored.
MaxBatch == 2

---------------------------------------------------------------------------
(* String helpers *)

\* Largest index i with s[i] = c, or 0 when c does not occur (str.rfind + 1).
RFind(s, c) ==
    LET hits == {i \in 1..Len(s) : s[i] = c}
    IN  IF hits = {} THEN 0 ELSE CHOOSE i \in hits : \A j \in hits : j <= i

\* str.endswith
EndsWith(s, suffix) ==
    /\ Len(suffix) <= Len(s)
    /\ SubSeq(s, Len(s) - Len(suffix) + 1, Len(s)) = suffix

UpperLetters ==
    << "A","B","C","D","E","F","G","H","I","J","K","L","M",
       "N","O","P","Q","R","S","T","U","V","W","X","Y","Z" >>

LowerLetters ==
    << "a","b","c","d","e","f","g","h","i","j","k","l","m",
       "n","o","p","q","r","s","t","u","v","w","x","y","z" >>

\* A character outside ASCII is written as its code point, "U+212A"; so is
\* the grave accent, "U+0060".  The alphabet of the model: ASCII, Latin-1
\* (U+0080 to U+00FF) and the code points U+0130, U+0131, U+017F, U+0307,
\* U+03A3, U+03C2, U+03C3 and U+212A.

\* The upper-case letters of Latin-1, U+00C0 to U+00DE without U+00D7.
UpperLatin1 ==
    << "U+00C0", "U+00C1", "U+00C2", "U+00C3", "U+00C4", "U+00C5", "U+00C6", "U+00C7",
       "U+00C8", "U+00C9", "U+00CA", "U+00CB", "U+00CC", "U+00CD", "U+00CE", "U+00CF",
       "U+00D0", "U+00D1", "U+00D2", "U+00D3", "U+00D4", "U+00D5", "U+00D6", "U+00D8",
       "U+00D9", "U+00DA", "U+00DB", "U+00DC", "U+00DD", "U+00DE" >>

\* Their lower-case letters, U+00E0 to U+00FE without U+00F7.
LowerLatin1 ==
    << "U+00E0", "U+00E1", "U+00E2", "U+00E3", "U+00E4", "U+00E5", "U+00E6", "U+00E7",
       "U+00E8", "U+00E9", "U+00EA", "U+00EB", "U+00EC", "U+00ED", "U+00EE", "U+00EF",
       "U+00F0", "U+00F1", "U+00F2", "U+00F3", "U+00F4", "U+00F5", "U+00F6", "U+00F8",
       "U+00F9", "U+00FA", "U+00FB", "U+00FC", "U+00FD", "U+00FE" >>

\* Characters with the Unicode property Cased, of the alphabet.
CasedChars ==
    {UpperLetters[k] : k \in 1..26} \cup {LowerLetters[k] : k \in 1..26} \cup
    {UpperLatin1[k] : k \in 1..30} \cup {LowerLatin1[k] : k \in 1..30} \cup
    { "U+00AA", "U+00B5", "U+00BA", "U+00DF", "U+00FF",
      "U+0130", "U+0131", "U+017F", "U+03A3", "U+03C2", "U+03C3", "U+212A" }

\* Characters with the Unicode property Case_Ignorable, of the alphabet.
CaseIgnorableChars ==
    { "'", ".", ":", "^", "U+0060", "U+00A8", "U+00AD", "U+00AF", "U+00B4",
      "U+00B7", "U+00B8", "U+0307" }

\* The lower-case mapping of one character, a string: A-Z go to a-z, the
\* upper-case letters of Latin-1 to their lower-case letters, KELVIN SIGN
\* U+212A to "k", U+0130 to "i" followed by U+0307, U+03A3 to U+03C3; the other
\* characters of the alphabet map to themselves.
LowerChar(c) ==
    IF \E k \in 1..26 : UpperLetters[k] = c
    THEN << LowerLetters[CHOOSE k \in 1..26 : UpperLetters[k] = c] >>
    ELSE IF \E k \in 1..30 : UpperLatin1[k] = c
    THEN << LowerLatin1[CHOOSE k \in 1..30 : UpperLatin1[k] = c] >>
    ELSE IF c = "U+212A" THEN << "k" >>
    ELSE IF c = "U+0130" THEN << "i", "U+0307" >>
    ELSE IF c = "U+03A3" THEN << "U+03C3" >>
    ELSE << c >>

\* The capital sigma at position k of s is in the Final_Sigma context: the
\* nearest character before it that is not case-ignorable is cased, and the
\* nearest such character after it, if any, is not.
FinalSigma(s, k) ==
    LET before == {j \in 1..(k - 1) : s[j] \notin CaseIgnorableChars}
        after  == {j \in (k + 1)..Len(s) : s[j] \notin CaseIgnorableChars}
    IN  /\ before # {}
        /\ s[CHOOSE j \in before : \A h \in before : h <= j] \in CasedChars
        /\ \/ after = {}
           \/ s[CHOOSE j \in after : \A h \in after : j <= h] \notin CasedChars

\* str.lower() from position k on: the mappings of the characters, one after
\* the other; a capital sigma in the Final_Sigma context maps to U+03C2.
RECURSIVE LowerFrom(_, _)
LowerFrom(s, k) ==
    IF k > Len(s) THEN << >>
    ELSE (IF s[k] = "U+03A3" /\ FinalSigma(s, k)
          THEN << "U+03C2" >> ELSE LowerChar(s[k])) \o LowerFrom(s, k + 1)

\* str.lower()
Lower(s) == LowerFrom(s, 1)

---------------------------------------------------------------------------
(* Path helpers (posixpath) *)

\* os.path.basename: everything after the last "/".
Basename(p) == SubSeq(p, RFind(p, "/") + 1, Len(p))

\* os.path.splitext(p)[0]: cut at the last dot of the last component, unless
\* that component consists of leading dots only up to that dot.
SplitextRoot(p) ==
    LET sepIndex == RFind(p, "/")
        dotIndex == RFind(p, ".")
    IN  IF /\ dotIndex > sepIndex
           /\ \E k \in (sepIndex + 1)..(dotIndex - 1) : p[k] # "."
        THEN SubSeq(p, 1, dotIndex - 1)
        ELSE p

\* utils.filename: the base name of a path, directory and extension removed.
filename(path) == SplitextRoot(Basename(path))

\* os.path.join(a, b)
Join(a, b) ==
    IF Len(b) > 0 /\ b[1] = "/" THEN b
    ELSE IF a = << >> \/ a[Len(a)] = "/" THEN a \o b
    ELSE a \o << "/" >> \o b

\* The components of a path: the pieces between "/" characters.
RECURSIVE Components(_)
Components(p) ==
    IF p = << >> THEN << << >> >>
    ELSE LET i == RFind(p, "/")
         IN  IF i = 0 THEN << p >>
             ELSE Append(Components(SubSeq(p, 1, i - 1)), SubSeq(p, i + 1, Len(p)))

\* The file a path names, as the operating system resolves it when the program
\* opens it: empty and "." components name nothing, a leading "/" makes the
\* path absolute.  Two paths name the same file iff they resolve alike
\* (no symbolic links, no ".." components in the inputs explored).
Resolve(p) ==
    [abs   |-> (Len(p) > 0 /\ p[1] = "/"),
     comps |-> SelectSeq(Components(p), LAMBDA c : c # << >> /\ c # << "." >>)]

---------------------------------------------------------------------------
(* Program constants *)

\* The colour a name that is not in the table resolves to.
DefaultColor == << "&", "H", "0", "0", "F", "F", "0", "0" >>

\* The table of named colours.
COLORS ==
    (<< "b", "l", "a", "c", "k" >> :> << "&", "H", "0", "0", "0", "0", "0", "0" >>) @@
    (<< "w", "h", "i", "t", "e" >> :> << "&", "H", "F", "F", "F", "F", "F", "F" >>) @@
    (<< "r", "e", "d" >> :> << "&", "H", "F", "F", "0", "0", "0", "0" >>) @@
    (<< "g", "r", "e", "e", "n" >> :> << "&", "H", "0", "0", "F", "F", "0", "0" >>) @@
    (<< "b", "l", "u", "e" >> :> << "&", "H", "0", "0", "0", "0", "F", "F" >>) @@
    (<< "y", "e", "l", "l", "o", "w" >> :> << "&", "H", "F", "F", "F", "F", "0", "0" >>) @@
    (<< "c", "y", "a", "n" >> :> << "&", "H", "0", "0", "F", "F", "F", "F" >>) @@
    (<< "m", "a", "g", "e", "n", "t", "a" >> :> << "&", "H", "F", "F", "0", "0", "F", "F" >>)

\* The suffix of an English-only model name.
DotEn == << ".", "e", "n" >>

\* Extensions of the artifacts the pipeline writes.
WavExt == << ".", "w", "a", "v" >>
SrtExt == << ".", "s", "r", "t" >>
Mp4Ext == << ".", "m", "p", "4" >>

\* tempfile.gettempdir(): the system temporary directory.
TempDir == << "/", "t", "m", "p" >>

---------------------------------------------------------------------------
(* Inputs explored *)

\* Video paths: the same base name in the working directory and in a
\* directory, with two extensions, and a base name that contains a dot.
VideoPaths ==
    { << "a", ".", "m", "p", "4" >>,
      << "x", "/", "a", ".", "m", "p", "4" >>,
      << "x", "/", "a", ".", "a", "v", "i" >>,
      << "y", "/", "b", ".", "c", ".", "m", "k", "v" >> }

\* args["video"]: nargs="+" gives a non-empty list; a path may be repeated.
Batches == UNION { [1..n -> VideoPaths] : n \in 1..MaxBatch }

\* --output_dir: the default ".", a fresh directory (also spelt with a trailing
\* slash), the directory of an input.
OutputDirs == { << "." >>, << "o" >>, << "o", "/" >>, << "x" >> }

\* --model: some of whisper.available_models().
ModelNames == { << "s", "m", "a", "l", "l" >>, << "s", "m", "a", "l", "l", ".", "e", "n" >>, << "t", "i", "n", "y", ".", "e", "n" >>, << "l", "a", "r", "g", "e", "-", "v", "1" >> }

\* --language: auto and some of the enumerated codes.
Languages == { "auto", "en", "fr" }

\* --task
Tasks == { "transcribe", "translate" }

\* --color: palette names in several letter cases, among them one spelt with
\* the KELVIN SIGN, and names not in the palette.
ColorArgs ==
    { << "b", "l", "a", "c", "k" >>,
      << "w", "h", "i", "t", "e" >>,
      << "r", "e", "d" >>,
      << "g", "r", "e", "e", "n" >>,
      << "b", "l", "u", "e" >>,
      << "y", "e", "l", "l", "o", "w" >>,
      << "c", "y", "a", "n" >>,
      << "m", "a", "g", "e", "n", "t", "a" >>,
      << "R", "E", "D" >>,
      << "R", "e", "d" >>,
      << "r", "E", "d" >>,
      << "B", "l", "u", "e" >>,
      << "Y", "E", "L", "L", "O", "W" >>,
      << "C", "y", "a", "n" >>,
      << "M", "a", "g", "e", "n", "t", "a" >>,
      << "W", "H", "I", "T", "E" >>,
      << "B", "l", "a", "c", "k" >>,
      << "G", "R", "E", "E", "N" >>,
      << "p", "u", "r", "p", "l", "e" >>,
      << "P", "u", "r", "p", "l", "e" >>,
      << "r", "e", "d", "d" >>,
      << "r", "e" >>,
      <<  >>,
      << "b", "l", "a", "c", "U+212A" >>,
      << "B", "L", "A", "C", "U+212A" >>,
      << "w", "h", "U+0130", "t", "e" >>,
      << "w", "h", "U+0131", "t", "e" >>,
      << "R", "U+0130" >>,
      << "U+00C9" >>,
      << "r", "e", "d", "U+03A3" >>,
      << "A", "U+0060", "U+03A3" >>,
      << "a", "U+03A3", "U+0060", "b" >>,
      << "U+00C0" >> }

BatchOfTwo == << << "x", "/", "a", ".", "m", "p", "4" >>, << "y", "/", "b", ".", "c", ".", "m", "k", "v" >> >>

---------------------------------------------------------------------------
(* State *)

VARIABLES
    argv,            \* the parsed command line (parser.parse_args().__dict__)
    args,            \* what is left of that dict: the keyword arguments of transcribe
    color,           \* the resolved outline colour
    pc,              \* where main is: start, get_audio, get_subtitles, compose, done, failed
    i,               \* the position of the loop main is in
    audio_paths,     \* get_audio's dict, as its items in insertion order
    subtitles_path,  \* get_subtitles' dict, as its items in insertion order
    fs,              \* the files: resolved path -> content
    log              \* the calls made to the media and recognition engines and open()

vars == << argv, args, color, pc, i, audio_paths, subtitles_path, fs, log >>

\* d[k] = v on a dict kept as its items in insertion order: an existing key
\* keeps its position.
DictPut(d, k, v) ==
    IF \E n \in 1..Len(d) : d[n][1] = k
    THEN [d EXCEPT ![CHOOSE n \in 1..Len(d) : d[n][1] = k] = << k, v >>]
    ELSE Append(d, << k, v >>)

\* Writing content c to the file path p names.
WriteFile(f, p, c) ==
    [r \in DOMAIN f \cup {Resolve(p)} |-> IF r = Resolve(p) THEN c ELSE f[r]]

\* No source: the content of a file that derives from no input video.
NoSrc == [abs |-> FALSE, comps |-> << >>]

\* The content of the input video file r: it is its own source.
VideoFile(r) == [kind |-> "video", src |-> r, subs |-> NoSrc]

\* What an interrupted write leaves behind.
PartialFile == [kind |-> "partial", src |-> NoSrc, subs |-> NoSrc]

\* Files the media engine can decode.
IsMedia(f, p) == Resolve(p) \in DOMAIN f /\ f[Resolve(p)].kind \in {"video", "wav", "mp4"}

Event(op, video, ok, lang, target) ==
    [op |-> op, video |-> video, ok |-> ok, lang |-> lang, target |-> target]

---------------------------------------------------------------------------
(* The start of main: the command line *)

Argv(video, model, dir, osrt, sonly, lang, col, task) ==
    [video |-> video, model |-> model, output_dir |-> dir, output_srt |-> osrt,
     srt_only |-> sonly, language |-> lang, color |-> col, task |-> task]

\* Every batch, output directory and flag combination, default configuration.
InitPipeline ==
    \E video \in Batches, dir \in OutputDirs, osrt \in BOOLEAN, sonly \in BOOLEAN :
        argv = Argv(video, << "s", "m", "a", "l", "l" >>, dir, osrt, sonly,
                    "auto", << "g", "r", "e", "e", "n" >>, "transcribe")

\* Every batch, model, language and task, composing into a fresh directory.
InitLanguage ==
    \E video \in Batches, model \in ModelNames, lang \in Languages, task \in Tasks :
        argv = Argv(video, model, << "o" >>, FALSE, FALSE, lang,
                    << "g", "r", "e", "e", "n" >>, task)

\* Every colour name, on a batch of two videos.
InitColor ==
    \E col \in ColorArgs, sonly \in BOOLEAN :
        argv = Argv(BatchOfTwo, << "s", "m", "a", "l", "l" >>, << "o" >>, FALSE,
                    sonly, "auto", col, "transcribe")

Init ==
    /\ InitPipeline \/ InitLanguage \/ InitColor
    /\ args = << >>
    /\ color = << >>
    /\ pc = "start"
    /\ i = 1
    /\ audio_paths = << >>
    /\ subtitles_path = << >>
    /\ fs = [r \in {Resolve(argv.video[n]) : n \in 1..Len(argv.video)} |->
                VideoFile(r)]
    /\ log = << >>

---------------------------------------------------------------------------
(* main, lines 54-79: configuration *)

\* Mutant of ColorName: the name is looked up as typed.
ColorNameAsTyped == argv.color

\* args.pop("color").lower()
ColorName == Lower(argv.color)

\* COLORS.get(color_name, "&H00FF00")
ResolveColor(color_name) ==
    IF color_name \in DOMAIN COLORS THEN COLORS[color_name] ELSE DefaultColor

\* Mutant of TranscribeArgs: the branches in the other order, so a requested
\* language wins over the English-only rule.
TranscribeArgsRequestFirst ==
    LET rest == ("task" :> argv.task)
    IN  IF argv.language # "auto" THEN rest @@ ("language" :> argv.language)
        ELSE IF EndsWith(argv.model, DotEn) THEN rest @@ ("language" :> "en")
        ELSE rest

\* The dict left after the pops, with the language entry main puts back: "en"
\* for an English-only model, else the requested language unless it is auto.
\* (verbose stays in the dict too; it only changes what is printed.)
TranscribeArgs ==
    LET rest == ("task" :> argv.task)
    IN  IF EndsWith(argv.model, DotEn) THEN rest @@ ("language" :> "en")
        ELSE IF argv.language # "auto" THEN rest @@ ("language" :> argv.language)
        ELSE rest

\* The language keyword transcribe receives: whisper's default is None, which
\* makes the engine detect the language.
LanguageOf(kwargs) ==
    IF "language" \in DOMAIN kwargs THEN kwargs["language"] ELSE "None"

\* Lines 54-79: the pops, the colour, the language entry.  os.makedirs and
\* whisper.load_model touch none of the files modelled.  The font name, font
\* size and border style are passed to the subtitles filter as given.
Configure ==
    /\ pc = "start"
    /\ color' = ResolveColor(ColorName)
    /\ args' = TranscribeArgs
    /\ pc' = "get_audio"
    /\ i' = 1
    /\ UNCHANGED << argv, audio_paths, subtitles_path, fs, log >>

---------------------------------------------------------------------------
(* An exception: nothing in main, get_audio or get_subtitles catches it. *)

\* Mutant of OnError: the failure is swallowed and the loop goes on.
OnErrorContinue == pc

OnError == "failed"

\* os.makedirs (line 68, the colour already resolved), warnings.warn (line 71,
\* when warnings are errors) or whisper.load_model (line 78, the language
\* entry already set) raises: main ends before any video is touched.
SetupFail ==
    /\ pc = "start"
    /\ color' = ResolveColor(ColorName)
    /\ \E loading \in BOOLEAN : args' = IF loading THEN TranscribeArgs ELSE args
    /\ pc' = OnError
    /\ UNCHANGED << argv, i, audio_paths, subtitles_path, fs, log >>

\* The print that opens an iteration of one of the three loops (lines 108,
\* 128 and 90) raises, as it does when standard output is a closed pipe: main
\* ends before the call of that iteration is made.
PrintFail ==
    /\ pc \in {"get_audio", "get_subtitles", "compose"}
    /\ pc' = OnError
    /\ UNCHANGED << argv, args, color, i, audio_paths, subtitles_path, fs, log >>

---------------------------------------------------------------------------
(* get_audio, lines 102-118 *)

AudioPath(path) == Join(TempDir, filename(path) \o WavExt)

\* Mutant of AfterExtract: get_audio returns from inside its loop.
AfterExtractReturnEarly == "get_subtitles"

\* Where main goes after the iteration at position i of get_audio's loop.
AfterExtract ==
    IF i = Len(argv.video) THEN "get_subtitles" ELSE "get_audio"

\* One iteration: the media engine decodes the video's audio into the wav file.
\* The engine refuses an output that is textually its input.
ExtractOk ==
    /\ pc = "get_audio"
    /\ i <= Len(argv.video)
    /\ LET path == argv.video[i]
           output_path == AudioPath(path)
       IN  /\ IsMedia(fs, path)
           /\ output_path # path
           /\ fs' = WriteFile(fs, output_path,
                      [kind |-> "wav", src |-> fs[Resolve(path)].src, subs |-> NoSrc])
           /\ audio_paths' = DictPut(audio_paths, path, output_path)
           /\ log' = Append(log, Event("extract", path, TRUE, "-", output_path))
    /\ pc' = AfterExtract
    /\ i' = IF pc' = "get_audio" THEN i + 1 ELSE 1
    /\ UNCHANGED << argv, args, color, subtitles_path >>

\* The media engine fails (no audio stream, unreadable source); it may have
\* started its output file.
ExtractFail ==
    /\ pc = "get_audio"
    /\ i <= Len(argv.video)
    /\ LET path == argv.video[i]
           output_path == AudioPath(path)
       IN  /\ \E wrote \in BOOLEAN :
                fs' = IF wrote /\ output_path # path
                      THEN WriteFile(fs, output_path, PartialFile) ELSE fs
           /\ log' = Append(log, Event("extract", path, FALSE, "-", output_path))
    /\ pc' = OnError
    /\ UNCHANGED << argv, args, color, i, audio_paths, subtitles_path >>

---------------------------------------------------------------------------
(* get_subtitles, lines 121-141, and main's return in subtitle-only mode *)

\* Mutant of SrtFlag: main passes output_srt alone.
SrtFlagOutputSrtOnly == argv.output_srt

\* The output_srt argument main passes to get_subtitles.
SrtFlag == argv.output_srt \/ argv.srt_only

SrtPath(path) ==
    Join(IF SrtFlag THEN argv.output_dir ELSE TempDir, filename(path) \o SrtExt)

\* Mutant of AfterSubtitles: main does not return in subtitle-only mode.
AfterSubtitlesNoReturn == "compose"

\* Where main goes after get_subtitles returns.
AfterSubtitles == IF argv.srt_only THEN "done" ELSE "compose"

\* Where main goes after the iteration at position i of get_subtitles' loop.
AfterSubtitle ==
    IF i = Len(audio_paths) THEN AfterSubtitles ELSE "get_subtitles"

\* The recognition engine can read the audio file.
IsAudio(f, p) == Resolve(p) \in DOMAIN f /\ f[Resolve(p)].kind = "wav"

\* One iteration: transcribe the audio, write the segments to the subtitle file.
SubtitleOk ==
    /\ pc = "get_subtitles"
    /\ i <= Len(audio_paths)
    /\ LET path == audio_paths[i][1]
           audio_path == audio_paths[i][2]
           srt_path == SrtPath(path)
       IN  /\ IsAudio(fs, audio_path)
           /\ fs' = WriteFile(fs, srt_path,
                      [kind |-> "srt", src |-> fs[Resolve(audio_path)].src, subs |-> NoSrc])
           /\ subtitles_path' = DictPut(subtitles_path, path, srt_path)
           /\ log' = log \o << Event("transcribe", path, TRUE, LanguageOf(args), << >>),
                               Event("write_srt", path, TRUE, "-", srt_path) >>
    /\ pc' = AfterSubtitle
    /\ i' = IF pc' = "get_subtitles" THEN i + 1 ELSE 1
    /\ UNCHANGED << argv, args, color, audio_paths >>

\* The recognition engine fails.
TranscribeFail ==
    /\ pc = "get_subtitles"
    /\ i <= Len(audio_paths)
    /\ log' = Append(log, Event("transcribe", audio_paths[i][1], FALSE,
                                LanguageOf(args), << >>))
    /\ pc' = OnError
    /\ UNCHANGED << argv, args, color, i, audio_paths, subtitles_path, fs >>

\* Writing the subtitle file fails: open() fails and leaves the path alone, or
\* the write fails after open() truncated the file.
WriteSrtFail ==
    /\ pc = "get_subtitles"
    /\ i <= Len(audio_paths)
    /\ LET path == audio_paths[i][1]
           audio_path == audio_paths[i][2]
           srt_path == SrtPath(path)
       IN  /\ IsAudio(fs, audio_path)
           /\ \E opened \in BOOLEAN :
                fs' = IF opened THEN WriteFile(fs, srt_path, PartialFile) ELSE fs
           /\ log' = log \o << Event("transcribe", path, TRUE, LanguageOf(args), << >>),
                               Event("write_srt", path, FALSE, "-", srt_path) >>
    /\ pc' = OnError
    /\ UNCHANGED << argv, args, color, i, audio_paths, subtitles_path >>

---------------------------------------------------------------------------
(* main, lines 87-99: composition *)

OutPath(path) == Join(argv.output_dir, filename(path) \o Mp4Ext)

\* Where main goes after the iteration at position i of the composition loop.
AfterCompose ==
    IF i = Len(subtitles_path) THEN "done" ELSE "compose"

\* The subtitles filter can read the subtitle file.
IsSubtitle(f, p) == Resolve(p) \in DOMAIN f /\ f[Resolve(p)].kind = "srt"

\* One iteration: the media engine renders the subtitles into the picture and
\* writes the result with the source's audio.  The engine refuses an output
\* that is textually its input; it does not notice another spelling of it.
Composed ==
    /\ pc = "compose"
    /\ i <= Len(subtitles_path)
    /\ LET path == subtitles_path[i][1]
           srt_path == subtitles_path[i][2]
           out_path == OutPath(path)
       IN  /\ IsMedia(fs, path)
           /\ IsSubtitle(fs, srt_path)
           /\ out_path # path
           /\ fs' = WriteFile(fs, out_path,
                      [kind |-> "mp4", src |-> fs[Resolve(path)].src,
                       subs |-> fs[Resolve(srt_path)].src])
           /\ log' = Append(log, Event("compose", path, TRUE, "-", out_path))
    /\ UNCHANGED << argv, args, color, audio_paths, subtitles_path >>

\* The iteration runs to its end, the print of line 99 included.
ComposeOk ==
    /\ Composed
    /\ pc' = AfterCompose
    /\ i' = IF pc' = "compose" THEN i + 1 ELSE i

\* The video is composed and the print of line 99 raises: main ends with the
\* composed file written.
SavedPrintFail ==
    /\ Composed
    /\ pc' = OnError
    /\ i' = i

\* The media engine fails (ffmpeg.Error); it may have started its output file.
ComposeFail ==
    /\ pc = "compose"
    /\ i <= Len(subtitles_path)
    /\ LET path == subtitles_path[i][1]
           out_path == OutPath(path)
       IN  /\ \E wrote \in BOOLEAN :
                fs' = IF wrote /\ out_path # path
                      THEN WriteFile(fs, out_path, PartialFile) ELSE fs
           /\ log' = Append(log, Event("compose", path, FALSE, "-", out_path))
    /\ pc' = OnError
    /\ UNCHANGED << argv, args, color, i, audio_paths, subtitles_path >>

---------------------------------------------------------------------------
(* The program *)

Next ==
    \/ Configure
    \/ SetupFail
    \/ PrintFail
    \/ ExtractOk
    \/ ExtractFail
    \/ SubtitleOk
    \/ TranscribeFail
    \/ WriteSrtFail
    \/ ComposeOk
    \/ SavedPrintFail
    \/ ComposeFail

Spec == Init /\ [][Next]_vars

---------------------------------------------------------------------------
(* Vocabulary of the properties *)

Positions == 1..Len(log)

Videos == {argv.video[k] : k \in 1..Len(argv.video)}

\* The positions of the log where operation op was performed for video v.
Calls(op, v) == {n \in Positions : log[n].op = op /\ log[n].video = v}

\* The calls that succeeded.
Done(op, v) == {n \in Calls(op, v) : log[n].ok}

\* The stage of the pipeline an operation belongs to.
Stage(op) ==
    CASE op = "extract" -> 1
      [] op \in {"transcribe", "write_srt"} -> 2
      [] op = "compose" -> 3

\* Equality of two names in their lower-case forms.
SameIgnoringCase(s, t) == Lower(s) = Lower(t)

HexDigits ==
    << "0","1","2","3","4","5","6","7","8","9","A","B","C","D","E","F" >>

IsHexDigit(c) == \E k \in 1..16 : HexDigits[k] = c

HexVal(c) == (CHOOSE k \in 1..16 : HexDigits[k] = c) - 1

\* "&H" followed by 6 hex digits.
IsColorCode(code) ==
    /\ Len(code) = 8
    /\ code[1] = "&"
    /\ code[2] = "H"
    /\ \A k \in 3..8 : IsHexDigit(code[k])

\* The n-th byte (1..3) after "&H".
ByteOf(code, n) == 16 * HexVal(code[2 * n + 1]) + HexVal(code[2 * n + 2])

\* The red, green and blue components of the palette's named colours.
NamedColor ==
    (<< "b","l","a","c","k" >>         :> [r |-> 0,   g |-> 0,   b |-> 0  ]) @@
    (<< "w","h","i","t","e" >>         :> [r |-> 255, g |-> 255, b |-> 255]) @@
    (<< "r","e","d" >>                 :> [r |-> 255, g |-> 0,   b |-> 0  ]) @@
    (<< "g","r","e","e","n" >>         :> [r |-> 0,   g |-> 255, b |-> 0  ]) @@
    (<< "b","l","u","e" >>             :> [r |-> 0,   g |-> 0,   b |-> 255]) @@
    (<< "y","e","l","l","o","w" >>     :> [r |-> 255, g |-> 255, b |-> 0  ]) @@
    (<< "c","y","a","n" >>             :> [r |-> 0,   g |-> 255, b |-> 255]) @@
    (<< "m","a","g","e","n","t","a" >> :> [r |-> 255, g |-> 0,   b |-> 255])

---------------------------------------------------------------------------
(* Properties *)

\* C1: in subtitle-only mode no composition step is ever started and no
\* composed video file is produced, and when the run has completed every input
\* video has exactly one subtitle file: one entry in the result, written by
\* one write, and the file is there.  (That two videos have different
\* subtitle files is C2.)
C1_SrtOnlySkipsComposition ==
    argv.srt_only =>
        /\ pc # "compose"
        /\ \A n \in Positions : log[n].op # "compose"
        /\ \A r \in DOMAIN fs : fs[r].kind # "mp4"
        /\ pc = "done" =>
             \A v \in Videos :
                /\ Cardinality(Done("write_srt", v)) = 1
                /\ Cardinality({m \in 1..Len(subtitles_path) :
                                    subtitles_path[m][1] = v}) = 1
                /\ \A m \in 1..Len(subtitles_path) :
                      subtitles_path[m][1] = v => IsSubtitle(fs, subtitles_path[m][2])

\* C1 witness: a subtitle-only run of two different videos has completed.
C1_Witness ==
    /\ argv.srt_only
    /\ pc = "done"
    /\ Cardinality(Videos) = 2
    /\ Len(subtitles_path) = 2

\* C2 (as claimed): two distinct input videos never share an audio path, a
\* subtitle path or a composed-video path.
C2_ArtifactsNotShared ==
    /\ \A m, n \in 1..Len(audio_paths) :
          m # n => Resolve(audio_paths[m][2]) # Resolve(audio_paths[n][2])
    /\ \A m, n \in 1..Len(subtitles_path) :
          m # n => Resolve(subtitles_path[m][2]) # Resolve(subtitles_path[n][2])
    /\ \A m, n \in Positions :
          (/\ log[m].op = "compose"
           /\ log[n].op = "compose"
           /\ log[m].video # log[n].video)
          => Resolve(log[m].target) # Resolve(log[n].target)

\* C3 (as claimed): no file the pipeline writes is an input video of the
\* batch, so every input video file is as it was.
C3_InputsUnchanged ==
    \A v \in Videos :
        /\ Resolve(v) \in DOMAIN fs
        /\ fs[Resolve(v)] = VideoFile(Resolve(v))

\* C4 (as claimed): when the run has ended, a failed composition of one video
\* has not kept any other video whose subtitle file was written from being
\* composed.
C4_ComposeFailureIsolated ==
    pc \in {"done", "failed"} =>
        \A n \in Positions :
            (log[n].op = "compose" /\ ~log[n].ok) =>
                \A m \in 1..Len(subtitles_path) :
                    subtitles_path[m][1] # log[n].video
                    => Calls("compose", subtitles_path[m][1]) # {}

\* C5: with a model whose name ends in ".en" every call of the recognition
\* engine receives the language "en", whatever language was requested.
C5_EnglishOnlyForcesEnglish ==
    EndsWith(argv.model, << ".", "e", "n" >>) =>
        \A n \in Positions : log[n].op = "transcribe" => log[n].lang = "en"

\* C5 witness: an English-only model, French requested, both videos of the
\* batch transcribed.
C5_Witness ==
    /\ EndsWith(argv.model, << ".", "e", "n" >>)
    /\ argv.language = "fr"
    /\ \A v \in Videos : Done("transcribe", v) # {}
    /\ Cardinality(Videos) = 2

\* C6: every subtitle file is written to <dir>/<base-name>.srt, where <dir> is
\* the output directory when output_srt or srt_only is set and the temporary
\* directory otherwise; the path recorded for the video is that path.
C6_SubtitleLocation ==
    LET dir == IF argv.output_srt \/ argv.srt_only
               THEN argv.output_dir ELSE << "/", "t", "m", "p" >>
        expected(v) == dir \o << "/" >> \o filename(v) \o << ".", "s", "r", "t" >>
    IN  /\ \A n \in Positions :
              log[n].op = "write_srt" =>
                  /\ Resolve(log[n].target) = Resolve(expected(log[n].video))
                  /\ EndsWith(log[n].target,
                              << "/" >> \o filename(log[n].video) \o << ".", "s", "r", "t" >>)
                  /\ log[n].ok => Resolve(log[n].target) \in DOMAIN fs
        /\ \A m \in 1..Len(subtitles_path) :
              Resolve(subtitles_path[m][2]) = Resolve(expected(subtitles_path[m][1]))

\* C6 witness: subtitle-only mode without output_srt, two subtitle files
\* written.
C6_Witness ==
    /\ argv.srt_only
    /\ ~argv.output_srt
    /\ pc = "done"
    /\ Len(subtitles_path) = 2

\* C7: once the colour is resolved, a name that equals no palette name after
\* case folding has the default green &H00FF00, a name that equals a palette
\* name after case folding has that name's code, and a colour is always there.
C7_ColorFallback ==
    pc # "start" =>
        LET matches == {n \in DOMAIN COLORS : SameIgnoringCase(argv.color, n)}
        IN  /\ matches = {} => color = << "&", "H", "0", "0", "F", "F", "0", "0" >>
            /\ \A n \in matches : color = COLORS[n]
            /\ IsColorCode(color)

\* C7 witness: "Purple" has been resolved to the default green.
C7_Witness ==
    /\ pc # "start"
    /\ argv.color = << "P", "u", "r", "p", "l", "e" >>
    /\ color = << "&", "H", "0", "0", "F", "F", "0", "0" >>

\* C8 (as claimed): the code a palette name resolves to is &H and 6 hex digits
\* whose first byte is the blue, second the green and third the red component
\* of the named colour.
C8_BlueGreenRedOrder ==
    (pc # "start" /\ Lower(argv.color) \in DOMAIN NamedColor) =>
        /\ IsColorCode(color)
        /\ ByteOf(color, 1) = NamedColor[Lower(argv.color)].b
        /\ ByteOf(color, 2) = NamedColor[Lower(argv.color)].g
        /\ ByteOf(color, 3) = NamedColor[Lower(argv.color)].r

\* C9 (as claimed): every step of one video precedes the audio extraction of
\* the next video of the batch.
C9_SequentialPerVideo ==
    \A k \in 1..(Len(argv.video) - 1) :
        argv.video[k] # argv.video[k + 1] =>
            \A m, n \in Positions :
                (/\ log[m].video = argv.video[k]
                 /\ log[n].video = argv.video[k + 1]
                 /\ log[n].op = "extract")
                => m < n

\* C9 (amended): processing is sequential by stage: no step of a stage
\* follows a step of a later stage, the audio of every video has been
\* extracted before any transcription, and the subtitle file of every video
\* has been written before any composition.
C9_SequentialPerStage ==
    /\ \A m, n \in Positions : m < n => Stage(log[m].op) <= Stage(log[n].op)
    /\ \A n \in Positions :
          log[n].op = "transcribe" =>
              \A v \in Videos : \E m \in Done("extract", v) : m < n
    /\ \A n \in Positions :
          log[n].op = "compose" =>
              \A v \in Videos : \E m \in Done("write_srt", v) : m < n

\* C9 witness: a batch of two different videos has been extracted, transcribed
\* and composed.
C9_Witness ==
    /\ pc = "done"
    /\ Cardinality(Videos) = 2
    /\ \A v \in Videos : Done("compose", v) # {}

\* C10: a failed extraction, transcription or subtitle write is the last step
\* of the run: main has failed, no composition was started and no composed
\* video exists.  Once main has failed, whatever raised, nothing further
\* happens; a composed video exists only if a composition was started; and
\* the subtitle files that were written are still there.
C10_ErrorHaltsBatch ==
    /\ pc = "failed" => ~ENABLED Next
    /\ (\A m \in Positions : log[m].op # "compose")
          => \A r \in DOMAIN fs : fs[r].kind # "mp4"
    /\ \A m \in Positions :
          (log[m].op = "write_srt" /\ log[m].ok)
          => Resolve(log[m].target) \in DOMAIN fs
    /\ \A n \in Positions :
          (log[n].op \in {"extract", "transcribe", "write_srt"} /\ ~log[n].ok) =>
              /\ n = Len(log)
              /\ pc = "failed"
              /\ \A m \in Positions : log[m].op # "compose"

\* C10 witness: the subtitle write of the second video failed after the
\* subtitle file of the first was written.
C10_Witness ==
    /\ pc = "failed"
    /\ Len(log) = 6
    /\ log[6].op = "write_srt"
    /\ ~log[6].ok
    /\ log[4].op = "write_srt"
    /\ log[4].ok
    /\ log[4].video # log[6].video

====
